---- MODULE Spec2Model ----
(***************************************************************************)
(* Model of four/console.py: the bounded, versioned history buffer         *)
(* (_History), the /history delta-sync handler (HTTPHandler.handle_history)*)
(* and the polling client embedded in the served page (updateHistory,      *)
(* getHistory, historyDaemon).                                             *)
(*                                                                         *)
(* Three specifications share the variables:                               *)
(*   SpecHist  one _History object of any accepted capacity, driven by     *)
(*             complete append / reset / get calls and by /history         *)
(*             requests with arbitrary parameters;                         *)
(*   SpecConc  the server process: executor threads and request handler    *)
(*             threads running the _History methods statement by statement *)
(*             under the object's lock;                                    *)
(*   SpecSync  the server's history together with one polling client and   *)
(*             the requests and responses in flight between them.          *)
(***************************************************************************)
EXTENDS Integers, Sequences, FiniteSets, Bags, TLC

\* ------------------------------------------------------------------------
\* Bounds of the model
\* ------------------------------------------------------------------------

\* largest capacity handed to _History(len) in SpecHist
MaxLen == 2

\* longest chunk handed to append in SpecHist
MaxChunk == 3

\* most bytes appended within one version (caps start + len(value))
MaxTotal == 3

\* most reset() calls in a behaviour (caps version)
MaxResets == 2

\* largest requested length / begin of a /history request in SpecHist
MaxReq == 2

\* executor threads started in a behaviour of SpecConc
NumTasks == 2

\* capacity of the server's history, standing for _History(524288)
ServerLen == 3

\* most bytes a poll asks for, standing for len=32768
PollLen == 2

\* most bytes appended within one version in SpecSync
MaxSyncTotal == 4

\* most reset() calls in a behaviour of SpecSync
MaxSyncResets == 1

\* most requests and responses in flight at once in SpecSync
MaxInFlight == 2

\* SpecClient: the versions in response headers are 0..MaxVersion
MaxVersion == 1

\* SpecClient: the starts in response headers are 0..MaxHeader
MaxHeader == 2

\* SpecClient: the parts of responses have at most this many bytes
MaxPart == 2

\* SpecClient: polls are made while the wait is below this many ms
ClientWait == 200

\* ------------------------------------------------------------------------
\* Bytes
\* ------------------------------------------------------------------------

\* b'\n'
NL == 10

\* payload bytes used for chunks: 'a', 'b'
Letters == {97, 98}

Min(a, b) == IF a < b THEN a ELSE b

Max(a, b) == IF a > b THEN a ELSE b

\* all sequences over S of length 0..n
RECURSIVE SeqsUpTo(_, _)
SeqsUpTo(S, n) ==
    IF n = 0 THEN {<<>>}
    ELSE LET shorter == SeqsUpTo(S, n - 1)
         IN  shorter \cup {Append(s, x) : s \in {t \in shorter : Len(t) = n - 1}, x \in S}

\* ------------------------------------------------------------------------
\* Python sequence slicing  s[i:j], s[i:]
\* ------------------------------------------------------------------------

\* a slice index is taken relative to the end when negative, then clamped
PyIndex(i, n) == IF i < 0 THEN Max(i + n, 0) ELSE Min(i, n)

PySlice(s, i, j) ==
    LET lo == PyIndex(i, Len(s))
        hi == PyIndex(j, Len(s))
    IN  IF lo >= hi THEN <<>> ELSE SubSeq(s, lo + 1, hi)

PySliceFrom(s, i) == PySlice(s, i, Len(s))

\* ------------------------------------------------------------------------
\* State
\* ------------------------------------------------------------------------

VARIABLES
    version,    \* _History.version
    start,      \* _History.start
    value,      \* _History.value
    len,        \* _History.len
    stream,     \* history: every byte passed to append in the current version
    past,       \* history: the streams of the versions before the current one
    lastOp,     \* history: the operation that made the last step
    queries,    \* the parameters of the last /history request handled
    reply,      \* the (version, start, begin, part) answered to it
    content,    \* the body written for it
    prevContent,\* the body written for the same request just before, if any
    pc,         \* per thread: the statement it is at
    ret,        \* per thread: where it continues after the _History call
    code,       \* per executor thread: exec_and_update_handler's code
    result,     \* per executor thread: exec_and_update_handler's result
    shape,      \* history, per executor thread at line 98: the return exec_context left by
    appends,    \* history, per running executor thread: the append calls it has completed
    arg,        \* per thread: append's parameter value
    advance,    \* per thread: append's local advance
    tmp,        \* per thread: the operand read for the pending assignment
    lock,       \* _History.lock: its holder, or Free
    got,        \* the tuple get() is building / has returned
    committed,  \* history: (version, start, value) when the last call completed
    cands,      \* history: the values of committed during the current get()
    historyVersion,        \* client: var historyVersion
    historyStart,          \* client: var historyStart
    historyData,           \* client: var historyData
    historyDaemonInterval, \* client: var historyDaemonInterval
    historyDaemonId,       \* client: var historyDaemonId
    timers,     \* client: the ids of the pending setTimeout timers
    requests,   \* the /history requests on their way to the server
    responses   \* the responses (status and body) on their way to the client

histVars == <<version, start, value, len>>

reqVars == <<queries, reply, content, prevContent>>

taskLog == <<shape, appends>>

threadVars == <<pc, ret, code, result, arg, advance, tmp, lock, got, committed, cands,
                shape, appends>>

clientVars == <<historyVersion, historyStart, historyData, historyDaemonInterval,
                historyDaemonId, timers, requests, responses>>

vars == <<version, start, value, len, stream, past, lastOp,
          queries, reply, content, prevContent,
          pc, ret, code, result, arg, advance, tmp, lock, got, committed, cands,
          shape, appends,
          historyVersion, historyStart, historyData, historyDaemonInterval,
          historyDaemonId, timers, requests, responses>>

\* ------------------------------------------------------------------------
\* _History
\* ------------------------------------------------------------------------

\* _History.__init__: self.len = max(len, 0)
HistoryLen(n) == Max(n, 0)

\* append's local advance: the bytes to evict so that the chunk fits
Advance(val, cap, chunk) == Len(val) - (cap - Len(chunk))

\* append whose oversized-chunk branch forgets the bytes it discards from the
\* old buffer
HistoryAppendForgetsOld(st, val, cap, chunk) ==
    IF Len(chunk) > cap
    THEN [start |-> st + (Len(chunk) - cap),
          value |-> PySliceFrom(chunk, -cap)]
    ELSE IF Len(chunk) > cap - Len(val)
    THEN [start |-> st + Advance(val, cap, chunk),
          value |-> PySliceFrom(val, Advance(val, cap, chunk)) \o chunk]
    ELSE [start |-> st, value |-> val \o chunk]

\* append whose overflow branch discards the whole old buffer
HistoryAppendEvictsAll(st, val, cap, chunk) ==
    IF Len(chunk) > cap
    THEN [start |-> st + Len(val) + (Len(chunk) - cap),
          value |-> PySliceFrom(chunk, -cap)]
    ELSE IF Len(chunk) > cap - Len(val)
    THEN [start |-> st + Len(val), value |-> chunk]
    ELSE [start |-> st, value |-> val \o chunk]

\* the (start, value) pair _History.append leaves for an old pair and a chunk
HistoryAppend(st, val, cap, chunk) ==
    IF Len(chunk) > cap
    THEN [start |-> st + Len(val) + (Len(chunk) - cap),
          value |-> PySliceFrom(chunk, -cap)]
    ELSE IF Len(chunk) > cap - Len(val)
    THEN [start |-> st + Advance(val, cap, chunk),
          value |-> PySliceFrom(val, Advance(val, cap, chunk)) \o chunk]
    ELSE [start |-> st, value |-> val \o chunk]

\* _History.get
HistoryGet == <<version, start, value>>

\* reset that clears the buffer but leaves the version alone
HistoryResetNoBump(ver) == [version |-> ver, start |-> 0, value |-> <<>>]

\* _History.reset_nolock followed by the version bump of _History.reset
HistoryReset(ver) == [version |-> ver + 1, start |-> 0, value |-> <<>>]

\* ------------------------------------------------------------------------
\* HTTPHandler.handle_history
\* ------------------------------------------------------------------------

\* str(n).encode('utf-8') for an integer n: its decimal digits
RECURSIVE Digits(_)
Digits(n) == IF n < 10 THEN <<48 + n>> ELSE Append(Digits(n \div 10), 48 + (n % 10))

Str(n) == IF n < 0 THEN <<45>> \o Digits(-n) ELSE Digits(n)

\* begin without the upper clamp
HistoryBeginNoUpper(q, snap) ==
    LET history_version == snap[1]
        history_start   == snap[2]
        begin == IF history_version # q.version THEN 0 ELSE q.begin
    IN  IF begin < history_start THEN history_start ELSE begin

\* begin that trusts the requested offset whatever the version
HistoryBeginTrusting(q, snap) ==
    LET history_start   == snap[2]
        history_value   == snap[3]
        begin == q.begin
    IN  IF begin < history_start THEN history_start
        ELSE IF begin > history_start + Len(history_value)
             THEN history_start + Len(history_value)
             ELSE begin

\* the begin offset answered: forced to 0 on a version mismatch, then
\* clamped into [history_start, history_start + len(history_value)]
HistoryBegin(q, snap) ==
    LET history_version == snap[1]
        history_start   == snap[2]
        history_value   == snap[3]
        begin == IF history_version # q.version THEN 0 ELSE q.begin
    IN  IF begin < history_start THEN history_start
        ELSE IF begin > history_start + Len(history_value)
             THEN history_start + Len(history_value)
             ELSE begin

HistoryReply(q, snap) ==
    LET history_start == snap[2]
        history_value == snap[3]
        begin == HistoryBegin(q, snap)
    IN  [version |-> snap[1],
         start   |-> history_start,
         begin   |-> begin,
         part    |-> PySlice(history_value, begin - history_start,
                             begin - history_start + q.len)]

HistoryContent(r) ==
    Str(r.version) \o <<NL>> \o Str(r.start) \o <<NL>> \o Str(r.begin) \o <<NL>> \o r.part

\* ------------------------------------------------------------------------
\* SpecHist: one _History object and /history requests
\* ------------------------------------------------------------------------

NoQueries == [len |-> -1, version |-> -1, begin |-> -1]

NoReply == [version |-> -1, start |-> -1, begin |-> -1, part |-> <<>>]

Chunks == SeqsUpTo(Letters, MaxChunk)

Requests == [len : 0..MaxReq, version : 0..MaxResets, begin : -1..(MaxTotal + 1)]

NoRequestState ==
    /\ queries = NoQueries
    /\ reply = NoReply
    /\ content = <<>>
    /\ prevContent = <<>>

\* an append or reset forgets the requests handled before it
ForgetRequests ==
    /\ queries' = NoQueries
    /\ reply' = NoReply
    /\ content' = <<>>
    /\ prevContent' = <<>>

\* the server thread and the executor threads
Server == 0

Tasks == 1..NumTasks

Threads == {Server} \cup Tasks

Free == -1

NoTuple == <<-1, -1, <<>>>>

\* no thread has been started and nobody is inside a _History method
ThreadsAtRest ==
    /\ pc = [t \in Threads |-> IF t = Server THEN "idle" ELSE "unborn"]
    /\ ret = [t \in Threads |-> "none"]
    /\ code = [t \in Tasks |-> <<>>]
    /\ result = [t \in Tasks |-> <<>>]
    /\ shape = [t \in Tasks |-> "none"]
    /\ appends = [t \in Tasks |-> 0]
    /\ arg = [t \in Threads |-> <<>>]
    /\ advance = [t \in Threads |-> 0]
    /\ tmp = [t \in Threads |-> <<>>]
    /\ lock = Free
    /\ got = NoTuple
    /\ committed = <<0, 0, <<>>>>
    /\ cands = {}

\* the page as loaded (lines 231-237) with runOnload's first timer set
\* (line 406), and nothing in flight
ClientLoaded ==
    /\ historyVersion = 0
    /\ historyStart = 0
    /\ historyData = <<>>
    /\ historyDaemonInterval = 0
    /\ historyDaemonId = 1
    /\ timers = {1}
    /\ requests = EmptyBag
    /\ responses = EmptyBag

InitHist ==
    /\ ThreadsAtRest
    /\ ClientLoaded
    /\ version = 0
    /\ len \in {HistoryLen(n) : n \in -1..MaxLen}
    /\ start = 0
    /\ value = <<>>
    /\ stream = <<>>
    /\ past = <<>>
    /\ lastOp = "init"
    /\ NoRequestState

\* a complete append(chunk) call
HistAppend ==
    \E chunk \in Chunks :
        /\ Len(stream) + Len(chunk) <= MaxTotal
        /\ LET r == HistoryAppend(start, value, len, chunk)
           IN  /\ start' = r.start
               /\ value' = r.value
        /\ stream' = stream \o chunk
        /\ lastOp' = "append"
        /\ ForgetRequests
        /\ UNCHANGED <<version, len, past>>
        /\ UNCHANGED <<threadVars, clientVars>>

\* a complete reset() call
HistReset ==
    /\ version < MaxResets
    /\ LET r == HistoryReset(version)
       IN  /\ version' = r.version
           /\ start' = r.start
           /\ value' = r.value
    /\ stream' = <<>>
    /\ lastOp' = "reset"
    /\ ForgetRequests
    /\ UNCHANGED <<len, past>>
    /\ UNCHANGED <<threadVars, clientVars>>

\* a /history handler that consumes what it returns
HistHandleHistoryDraining ==
    \E q \in Requests :
        LET r == HistoryReply(q, HistoryGet)
        IN  /\ queries' = q
            /\ reply' = r
            /\ content' = HistoryContent(r)
            /\ prevContent' = IF q = queries THEN content ELSE <<>>
            /\ lastOp' = "history"
            /\ start' = r.begin + Len(r.part)
            /\ value' = PySliceFrom(value, r.begin + Len(r.part) - start)
            /\ UNCHANGED <<version, len, stream, past>>
            /\ UNCHANGED <<threadVars, clientVars>>

\* a complete /history request: get() and the answer computed from it
HistHandleHistory ==
    \E q \in Requests :
        /\ queries' = q
        /\ reply' = HistoryReply(q, HistoryGet)
        /\ content' = HistoryContent(HistoryReply(q, HistoryGet))
        /\ prevContent' = IF q = queries THEN content ELSE <<>>
        /\ lastOp' = "history"
        /\ UNCHANGED <<version, start, value, len, stream, past>>
        /\ UNCHANGED <<threadVars, clientVars>>

NextHist == HistAppend \/ HistReset \/ HistHandleHistory

SpecHist == InitHist /\ [][NextHist]_vars

\* ------------------------------------------------------------------------
\* Properties of SpecHist
\* ------------------------------------------------------------------------

\* the last n elements of s
LastN(s, n) == SubSeq(s, Len(s) - n + 1, Len(s))

\* C1: for every capacity the constructor accepts (0 included) the retained
\* buffer never holds more than len bytes.
C1_BufferWithinCapacity == Len(value) <= len

\* C2: for a capacity of at least 1, start + len(value) is the number of
\* bytes appended since the last reset, so start counts the dropped bytes.
C2_EndOffsetIsTotal == len >= 1 => start + Len(value) = Len(stream)

C2_Witness ==
    /\ len >= 1
    /\ version > 0
    /\ lastOp = "append"
    /\ start > 0
    /\ Len(value) > 0

\* the bytes an append of c bytes has to evict from a buffer of n bytes
MinEviction(n, c, cap) == Max(0, n + c - cap)

\* C3: for a capacity of at least 1 the buffer is exactly the trailing
\* min(len, N) bytes of the N bytes appended since the last reset, and each
\* append advances start by the least eviction that makes room.
C3_BufferIsTail ==
    /\ [](len >= 1 => value = LastN(stream, Min(len, Len(stream))))
    /\ [][(lastOp' = "append" /\ len >= 1) =>
            start' - start =
                MinEviction(Len(value), Len(stream') - Len(stream), len)]_vars

C3_Witness ==
    /\ len = 2
    /\ lastOp = "append"
    /\ Len(stream) = 3
    /\ start = 1
    /\ value = SubSeq(stream, 2, 3)
    /\ value[1] # value[2]

\* C4: version starts at 0, a reset adds exactly 1 to it while clearing start
\* and the buffer in the same step, and append and get leave it alone.
C4_VersionCountsResets ==
    /\ version = 0
    /\ [][/\ lastOp' = "reset" =>
                (version' = version + 1 /\ start' = 0 /\ value' = <<>>)
          /\ lastOp' \in {"append", "history"} => version' = version
          /\ version' >= version]_vars

C4_Witness ==
    /\ lastOp = "reset"
    /\ version = 2
    /\ start = 0
    /\ value = <<>>

\* the begin a request effectively asks for: 0 when its version is not the log's
EffectiveBegin(q) == IF q.version # version THEN 0 ELSE q.begin

\* C7: the answer to a /history request carries the snapshot's version and
\* start, a begin clamped into [start, start + len(value)], and exactly the
\* retained bytes from begin up to begin + len or the end, whichever is first.
C7_ReplyIsClampedSlice ==
    lastOp = "history" =>
        LET end == start + Len(value)
            eff == EffectiveBegin(queries)
            to  == Min(reply.begin + queries.len, end)
        IN  /\ reply.version = version
            /\ reply.start = start
            /\ start <= reply.begin
            /\ reply.begin <= end
            /\ (start <= eff /\ eff <= end) => reply.begin = eff
            /\ eff < start => reply.begin = start
            /\ eff > end => reply.begin = end
            /\ reply.part = SubSeq(value, reply.begin - start + 1, to - start)
            /\ len >= 1 => reply.part = SubSeq(stream, reply.begin + 1, to)

C7_Witness ==
    /\ lastOp = "history"
    /\ queries.version = version
    /\ queries.begin > start + Len(value)
    /\ start > 0
    /\ Len(value) > 0

\* C8 as claimed: a request with another version than the log's is answered
\* with begin = 0 (looked at for capacities of at least 1, where the buffer
\* keeps within its capacity).
C8_StaleAnsweredFromZero ==
    (len >= 1 /\ lastOp = "history" /\ queries.version # version) =>
        reply.begin = 0

\* C8 as amended: a request with another version than the log's is answered
\* from the first retained byte, begin = start, whatever begin it asked for;
\* that is offset 0 exactly when nothing was evicted in the current version.
C8_StaleAnsweredFromStart ==
    (lastOp = "history" /\ queries.version # version) =>
        /\ reply.begin = start
        /\ reply.part = SubSeq(value, 1, Min(queries.len, Len(value)))
        /\ reply.begin = 0 <=> start = 0

C8_Witness ==
    /\ lastOp = "history"
    /\ queries.version # version
    /\ queries.begin > start
    /\ start > 0
    /\ Len(reply.part) > 0

\* C9: handling a /history request leaves version, start and the buffer
\* alone, and the same request handled twice in a row gets the same body.
C9_SyncReadOnlyIdempotent ==
    /\ [][lastOp' = "history" => UNCHANGED <<version, start, value>>]_vars
    /\ []((lastOp = "history" /\ prevContent # <<>>) => content = prevContent)

C9_Witness ==
    /\ lastOp = "history"
    /\ prevContent # <<>>
    /\ Len(reply.part) > 0
    /\ reply.begin > start

\* ------------------------------------------------------------------------
\* SpecConc: the server process.  socketserver.TCPServer handles one request
\* at a time on the serving thread; every /code request starts one executor
\* thread, which runs concurrently with the serving thread and with the
\* other executor threads.  The _History methods are run one statement at a
\* time.
\* ------------------------------------------------------------------------

\* submitted snippets: a short one, and one whose echo alone exceeds the capacity
Codes == {<<97>>, [i \in 1..ServerLen |-> 98]}

\* the texts exec_context returns: '' and "r"
Results == {<<>>, <<114>>}

\* the statements of get(), from the call to the return
GetPcs == {"G28", "G29v", "G29s", "G29x", "G_exit"}

InitConc ==
    /\ ThreadsAtRest
    /\ ClientLoaded
    /\ version = 0
    /\ len = HistoryLen(ServerLen)
    /\ start = 0
    /\ value = <<>>
    /\ stream = <<>>
    /\ past = <<>>
    /\ lastOp = "init"
    /\ NoRequestState

Goto(t, l) == pc' = [pc EXCEPT ![t] = l]

\* lock.acquire() that does not wait for the holder
AcquireNoWait(t) == lock' = t

\* with self.lock: entering waits until the lock is free and takes it
Acquire(t) == lock = Free /\ lock' = t

\* a with block left without the release
ReleaseForgotten(t) == UNCHANGED lock

\* with self.lock: leaving releases it
Release(t) == lock' = Free

\* a _History call completes: the log's triple as the call leaves it
Commit(ver, st, val) ==
    /\ committed' = <<ver, st, val>>
    /\ cands' = IF pc[Server] \in GetPcs THEN cands \cup {<<ver, st, val>>} ELSE cands

\* ---- the executor thread: _Executor.exec_and_update_handler ----

\* handle_code: executor.execute(data) starts a thread on the snippet
SrvHandleCode ==
    /\ pc[Server] = "idle"
    /\ \E t \in Tasks, c \in Codes :
        /\ pc[t] = "unborn"
        /\ \A u \in Tasks : u < t => pc[u] # "unborn"
        /\ Goto(t, "L96")
        /\ code' = [code EXCEPT ![t] = c]
    /\ UNCHANGED <<version, start, value, len, stream, past, lastOp>>
    /\ UNCHANGED <<reqVars, clientVars, taskLog>>
    /\ UNCHANGED <<ret, result, arg, advance, tmp, lock, got, committed, cands>>

\* line 96: self.handler.history.append(code + b'\n')
ExecEcho(t) ==
    /\ pc[t] = "L96"
    /\ arg' = [arg EXCEPT ![t] = code[t] \o <<NL>>]
    /\ ret' = [ret EXCEPT ![t] = "L97"]
    /\ Goto(t, "A32")
    /\ UNCHANGED <<version, start, value, len, stream, past, lastOp>>
    /\ UNCHANGED <<reqVars, clientVars, taskLog>>
    /\ UNCHANGED <<code, result, advance, tmp, lock, got, committed, cands>>

\* the returns of exec_context: line 72 or 80 ('' after statements only),
\* line 77 (the repr of the last expression), lines 91 and 93 (a trace)
Shapes == {"stmts", "expr", "raise"}

\* what exec_context can return by each: a repr is any text, a trace is
\* never empty
ExecContext(sh) ==
    IF sh = "stmts" THEN {<<>>}
    ELSE IF sh = "expr" THEN Results
    ELSE Results \ {<<>>}

\* line 97: result = self.exec_context(code); it may also never return
ExecRun(t) ==
    /\ pc[t] = "L97"
    /\ \E sh \in Shapes : \E r \in ExecContext(sh) :
        /\ result' = [result EXCEPT ![t] = r]
        /\ shape' = [shape EXCEPT ![t] = sh]
    /\ Goto(t, "L98")
    /\ UNCHANGED <<version, start, value, len, stream, past, lastOp>>
    /\ UNCHANGED <<reqVars, clientVars, appends>>
    /\ UNCHANGED <<ret, code, arg, advance, tmp, lock, got, committed, cands>>

\* lines 98-99: if result: self.handler.history.append(result + '\n')
ExecResult(t) ==
    /\ pc[t] = "L98"
    /\ IF result[t] # <<>>
       THEN /\ arg' = [arg EXCEPT ![t] = result[t] \o <<NL>>]
            /\ ret' = [ret EXCEPT ![t] = "end"]
            /\ Goto(t, "A32")
            /\ UNCHANGED <<code, result, appends>>
       ELSE /\ Goto(t, "end")
            /\ code' = [code EXCEPT ![t] = <<>>]
            /\ result' = [result EXCEPT ![t] = <<>>]
            /\ appends' = [appends EXCEPT ![t] = 0]
            /\ UNCHANGED <<arg, ret>>
    /\ shape' = [shape EXCEPT ![t] = "none"]
    /\ UNCHANGED <<version, start, value, len, stream, past, lastOp>>
    /\ UNCHANGED <<reqVars, clientVars>>
    /\ UNCHANGED <<advance, tmp, lock, got, committed, cands>>

\* ---- _History.append, lines 32-41 ----

\* a step of append that touches only the thread's own position and lock
AppendFrame ==
    /\ UNCHANGED <<version, start, value, len, stream, past, lastOp>>
    /\ UNCHANGED <<reqVars, clientVars, taskLog>>
    /\ UNCHANGED <<ret, code, result, arg, got, committed, cands>>

AppendAcquire(t) ==
    /\ pc[t] = "A32"
    /\ Acquire(t)
    /\ Goto(t, "A33")
    /\ UNCHANGED <<advance, tmp>>
    /\ AppendFrame

\* line 33: if len(value) > self.len
AppendTest33(t) ==
    /\ pc[t] = "A33"
    /\ Goto(t, IF Len(arg[t]) > len THEN "A34" ELSE "A36")
    /\ UNCHANGED <<advance, tmp, lock>>
    /\ AppendFrame

\* line 34: self.start += len(self.value) + (len(value) - self.len)
Append34(t) ==
    /\ pc[t] = "A34"
    /\ start' = start + Len(value) + (Len(arg[t]) - len)
    /\ Goto(t, "A35")
    /\ UNCHANGED <<version, value, len, stream, past, lastOp>>
    /\ UNCHANGED <<reqVars, clientVars, taskLog>>
    /\ UNCHANGED <<ret, code, result, arg, advance, tmp, lock, got, committed, cands>>

\* line 35: self.value = value[-self.len:]
Append35(t) ==
    /\ pc[t] = "A35"
    /\ value' = PySliceFrom(arg[t], -len)
    /\ stream' = stream \o arg[t]
    /\ Commit(version, start, value')
    /\ Goto(t, "A_exit")
    /\ UNCHANGED <<version, start, len, past, lastOp>>
    /\ UNCHANGED <<reqVars, clientVars, taskLog>>
    /\ UNCHANGED <<ret, code, result, arg, advance, tmp, lock, got>>

\* line 36: elif len(value) > self.len - len(self.value)
AppendTest36(t) ==
    /\ pc[t] = "A36"
    /\ Goto(t, IF Len(arg[t]) > len - Len(value) THEN "A37" ELSE "A41r")
    /\ UNCHANGED <<advance, tmp, lock>>
    /\ AppendFrame

\* line 37: advance = len(self.value) - (self.len - len(value))
Append37(t) ==
    /\ pc[t] = "A37"
    /\ advance' = [advance EXCEPT ![t] = Advance(value, len, arg[t])]
    /\ Goto(t, "A38")
    /\ UNCHANGED <<tmp, lock>>
    /\ AppendFrame

\* line 38: self.start += advance
Append38(t) ==
    /\ pc[t] = "A38"
    /\ start' = start + advance[t]
    /\ Goto(t, "A39r")
    /\ UNCHANGED <<version, value, len, stream, past, lastOp>>
    /\ UNCHANGED <<reqVars, clientVars, taskLog>>
    /\ UNCHANGED <<ret, code, result, arg, advance, tmp, lock, got, committed, cands>>

\* line 39, right-hand side: self.value[advance:] is read
Append39r(t) ==
    /\ pc[t] = "A39r"
    /\ tmp' = [tmp EXCEPT ![t] = PySliceFrom(value, advance[t])]
    /\ Goto(t, "A39w")
    /\ UNCHANGED <<advance, lock>>
    /\ AppendFrame

\* line 39, assignment: self.value = ... + value
Append39w(t) ==
    /\ pc[t] = "A39w"
    /\ value' = tmp[t] \o arg[t]
    /\ stream' = stream \o arg[t]
    /\ Commit(version, start, value')
    /\ Goto(t, "A_exit")
    /\ UNCHANGED <<version, start, len, past, lastOp>>
    /\ UNCHANGED <<reqVars, clientVars, taskLog>>
    /\ UNCHANGED <<ret, code, result, arg, advance, tmp, lock, got>>

\* line 41, left operand: self.value is read
Append41r(t) ==
    /\ pc[t] = "A41r"
    /\ tmp' = [tmp EXCEPT ![t] = value]
    /\ Goto(t, "A41w")
    /\ UNCHANGED <<advance, lock>>
    /\ AppendFrame

\* line 41, assignment: self.value += value
Append41w(t) ==
    /\ pc[t] = "A41w"
    /\ value' = tmp[t] \o arg[t]
    /\ stream' = stream \o arg[t]
    /\ Commit(version, start, value')
    /\ Goto(t, "A_exit")
    /\ UNCHANGED <<version, start, len, past, lastOp>>
    /\ UNCHANGED <<reqVars, clientVars, taskLog>>
    /\ UNCHANGED <<ret, code, result, arg, advance, tmp, lock, got>>

\* the with block of append is left and the call returns: its locals die
AppendRelease(t) ==
    /\ pc[t] = "A_exit"
    /\ Release(t)
    /\ Goto(t, ret[t])
    /\ arg' = [arg EXCEPT ![t] = <<>>]
    /\ advance' = [advance EXCEPT ![t] = 0]
    /\ tmp' = [tmp EXCEPT ![t] = <<>>]
    /\ ret' = [ret EXCEPT ![t] = "none"]
    /\ IF ret[t] = "end"
       THEN /\ code' = [code EXCEPT ![t] = <<>>]
            /\ result' = [result EXCEPT ![t] = <<>>]
            /\ appends' = [appends EXCEPT ![t] = 0]
       ELSE /\ appends' = [appends EXCEPT ![t] = @ + 1]
            /\ UNCHANGED <<code, result>>
    /\ UNCHANGED <<version, start, value, len, stream, past, lastOp>>
    /\ UNCHANGED <<reqVars, clientVars, shape>>
    /\ UNCHANGED <<got, committed, cands>>

\* ---- handle_clear: _History.reset, lines 43-46 ----

SrvFrame ==
    /\ UNCHANGED <<len, past, lastOp>>
    /\ UNCHANGED <<ret, code, result, arg, advance, tmp>>

SrvHandleClear ==
    /\ pc[Server] = "idle"
    /\ version < MaxResets
    /\ Goto(Server, "R44")
    /\ UNCHANGED <<version, start, value, stream, lock, got, committed, cands>>
    /\ UNCHANGED <<reqVars, clientVars, taskLog>>
    /\ SrvFrame

ResetAcquire ==
    /\ pc[Server] = "R44"
    /\ Acquire(Server)
    /\ Goto(Server, "R24")
    /\ UNCHANGED <<version, start, value, stream, got, committed, cands>>
    /\ UNCHANGED <<reqVars, clientVars, taskLog>>
    /\ SrvFrame

\* line 24: self.start = 0
Reset24 ==
    /\ pc[Server] = "R24"
    /\ start' = 0
    /\ Goto(Server, "R25")
    /\ UNCHANGED <<version, value, stream, lock, got, committed, cands>>
    /\ UNCHANGED <<reqVars, clientVars, taskLog>>
    /\ SrvFrame

\* line 25: self.value = b''
Reset25 ==
    /\ pc[Server] = "R25"
    /\ value' = <<>>
    /\ stream' = <<>>
    /\ Goto(Server, "R46")
    /\ UNCHANGED <<version, start, lock, got, committed, cands>>
    /\ UNCHANGED <<reqVars, clientVars, taskLog>>
    /\ SrvFrame

\* line 46: self.version += 1
Reset46 ==
    /\ pc[Server] = "R46"
    /\ version' = version + 1
    /\ Commit(version', start, value)
    /\ Goto(Server, "R_exit")
    /\ UNCHANGED <<start, value, stream, lock, got>>
    /\ UNCHANGED <<reqVars, clientVars, taskLog>>
    /\ SrvFrame

\* the with block of reset is left; handle_clear sends its empty response
ResetRelease ==
    /\ pc[Server] = "R_exit"
    /\ Release(Server)
    /\ Goto(Server, "idle")
    /\ UNCHANGED <<version, start, value, stream, got, committed, cands>>
    /\ UNCHANGED <<reqVars, clientVars, taskLog>>
    /\ SrvFrame

\* ---- handle_history: _History.get, lines 27-29, then lines 163-182 ----

\* lines 157-161: the parameters are read and get() is called
SrvHandleHistory ==
    /\ pc[Server] = "idle"
    /\ got' = NoTuple
    /\ cands' = {committed}
    /\ Goto(Server, "G28")
    /\ UNCHANGED <<version, start, value, stream, lock, committed>>
    /\ UNCHANGED <<reqVars, clientVars, taskLog>>
    /\ SrvFrame

\* get() that reads without taking the lock
GetAcquireNoLock ==
    /\ pc[Server] = "G28"
    /\ Goto(Server, "G29v")
    /\ UNCHANGED <<version, start, value, stream, lock, got, committed, cands>>
    /\ UNCHANGED <<reqVars, clientVars, taskLog>>
    /\ SrvFrame

GetAcquire ==
    /\ pc[Server] = "G28"
    /\ Acquire(Server)
    /\ Goto(Server, "G29v")
    /\ UNCHANGED <<version, start, value, stream, got, committed, cands>>
    /\ UNCHANGED <<reqVars, clientVars, taskLog>>
    /\ SrvFrame

\* line 29: self.version is read
Get29v ==
    /\ pc[Server] = "G29v"
    /\ got' = <<version, got[2], got[3]>>
    /\ Goto(Server, "G29s")
    /\ UNCHANGED <<version, start, value, stream, lock, committed, cands>>
    /\ UNCHANGED <<reqVars, clientVars, taskLog>>
    /\ SrvFrame

\* line 29: self.start is read
Get29s ==
    /\ pc[Server] = "G29s"
    /\ got' = <<got[1], start, got[3]>>
    /\ Goto(Server, "G29x")
    /\ UNCHANGED <<version, start, value, stream, lock, committed, cands>>
    /\ UNCHANGED <<reqVars, clientVars, taskLog>>
    /\ SrvFrame

\* line 29: self.value is read and the tuple is built
Get29x ==
    /\ pc[Server] = "G29x"
    /\ got' = <<got[1], got[2], value>>
    /\ Goto(Server, "G_exit")
    /\ UNCHANGED <<version, start, value, stream, lock, committed, cands>>
    /\ UNCHANGED <<reqVars, clientVars, taskLog>>
    /\ SrvFrame

\* the with block of get is left and the tuple returned
GetRelease ==
    /\ pc[Server] = "G_exit"
    /\ Release(Server)
    /\ Goto(Server, "H163")
    /\ UNCHANGED <<version, start, value, stream, got, committed, cands>>
    /\ UNCHANGED <<reqVars, clientVars, taskLog>>
    /\ SrvFrame

\* lines 163-182: the answer is computed from the tuple alone and written to
\* the socket, which this specification does not follow; the handler returns
SrvReply ==
    /\ pc[Server] = "H163"
    /\ got' = NoTuple
    /\ cands' = {}
    /\ Goto(Server, "idle")
    /\ UNCHANGED <<version, start, value, stream, lock, committed>>
    /\ UNCHANGED <<reqVars, clientVars, taskLog>>
    /\ SrvFrame

NextConc ==
    \/ SrvHandleCode
    \/ SrvHandleClear
    \/ SrvHandleHistory
    \/ ResetAcquire
    \/ Reset24
    \/ Reset25
    \/ Reset46
    \/ ResetRelease
    \/ GetAcquire
    \/ Get29v
    \/ Get29s
    \/ Get29x
    \/ GetRelease
    \/ SrvReply
    \/ \E t \in Tasks : ExecEcho(t)
    \/ \E t \in Tasks : ExecRun(t)
    \/ \E t \in Tasks : ExecResult(t)
    \/ \E t \in Tasks : AppendAcquire(t)
    \/ \E t \in Tasks : AppendTest33(t)
    \/ \E t \in Tasks : Append34(t)
    \/ \E t \in Tasks : Append35(t)
    \/ \E t \in Tasks : AppendTest36(t)
    \/ \E t \in Tasks : Append37(t)
    \/ \E t \in Tasks : Append38(t)
    \/ \E t \in Tasks : Append39r(t)
    \/ \E t \in Tasks : Append39w(t)
    \/ \E t \in Tasks : Append41r(t)
    \/ \E t \in Tasks : Append41w(t)
    \/ \E t \in Tasks : AppendRelease(t)

SpecConc == InitConc /\ [][NextConc]_vars

\* the steps of an executor thread other than the execution of the snippet
\* (line 97) and the wait for the lock
TaskStep(t) ==
    \/ ExecEcho(t)
    \/ ExecResult(t)
    \/ AppendTest33(t)
    \/ Append34(t)
    \/ Append35(t)
    \/ AppendTest36(t)
    \/ Append37(t)
    \/ Append38(t)
    \/ Append39r(t)
    \/ Append39w(t)
    \/ Append41r(t)
    \/ Append41w(t)
    \/ AppendRelease(t)

\* the steps of the serving thread inside a request handler, other than the
\* wait for the lock
HandlerStep ==
    \/ Reset24
    \/ Reset25
    \/ Reset46
    \/ ResetRelease
    \/ Get29v
    \/ Get29s
    \/ Get29x
    \/ GetRelease
    \/ SrvReply

\* Threads that can run do run, and a thread that waits for the lock gets it
\* if it is free again and again.  Nothing makes a snippet return (ExecRun)
\* and nothing makes a request arrive.
FairConc ==
    /\ \A t \in Tasks : WF_vars(TaskStep(t)) /\ SF_vars(AppendAcquire(t))
    /\ WF_vars(HandlerStep)
    /\ SF_vars(ResetAcquire \/ GetAcquire)

SpecConcFair == InitConc /\ [][NextConc]_vars /\ FairConc

\* ------------------------------------------------------------------------
\* Properties of SpecConc
\* ------------------------------------------------------------------------

\* C5: the tuple get() returns is the log's (version, start, value) as some
\* complete call left it, at an instant during the get() call: never a
\* value paired with a start or version from before or after a concurrent
\* append or reset.
C5_SnapshotIsOneInstant == pc[Server] = "H163" => got \in cands

C5_Witness ==
    /\ pc[Server] = "H163"
    /\ Cardinality(cands) = 2
    /\ got[2] > 0
    /\ got = committed
    /\ \E t \in Tasks : pc[t] = "A32"

\* some thread is between the start update and the buffer update of a call
MidCall == \E t \in Threads : pc[t] \in {"A35", "A39r", "A39w", "R25"}

IsSuffix(s, t) == Len(s) <= Len(t) /\ s = LastN(t, Len(s))

\* C6: with the chunks of the current version laid end to end in the order
\* their append calls complete, the buffer is always one contiguous run of
\* whole chunks behind at most a trailing part of one chunk, ending at the
\* end, and between calls it sits at offsets [start, start + len(value)):
\* no chunk is split, interleaved or lost except at the evicted front.
C6_ChunksContiguous ==
    /\ IsSuffix(value, stream)
    /\ ~MidCall => start = Len(stream) - Len(value)

C6_Witness ==
    /\ \E t, u \in Tasks : pc[t] = "A32" /\ pc[u] = "A_exit" /\ ret[u] = "L97"
    /\ Len(stream) > len
    /\ start > 0
    /\ version > 0

\* the statements of append(), from the call to the return
AppendPcs == {"A32", "A33", "A34", "A35", "A36", "A37", "A38", "A39r", "A39w",
              "A41r", "A41w", "A_exit"}

\* the step ends the task t: its last statement is done
Finishes(t) == pc[t] # "end" /\ pc'[t] = "end"

\* C14: every task makes one append of its snippet plus a newline, complete
\* before the snippet starts to execute; after the execution it makes
\* exactly one more append, of the result or trace plus a newline, when the
\* snippet ends in an expression or fails, and none when the snippet is
\* statements only and succeeds: after line 98 the task goes on to that
\* append in the first case and finishes in the second, and it finishes
\* nowhere else but at the end of that append.
C14_EchoThenResult ==
    [][\A t \in Tasks :
         /\ pc[t] \in {"unborn", "L96"} => appends[t] = 0
         /\ pc[t] \in {"L97", "L98"} => appends[t] = 1
         /\ (pc[t] \in AppendPcs /\ ret[t] = "L97") =>
                 appends[t] = 0 /\ arg[t] = code[t] \o <<NL>>
         /\ (pc[t] \in AppendPcs /\ ret[t] = "end") =>
                 appends[t] = 1 /\ arg[t] = result[t] \o <<NL>>
         /\ (pc[t] = "L98" /\ pc'[t] # "L98") =>
                 IF shape[t] \in {"expr", "raise"}
                 THEN pc'[t] = "A32" /\ ret'[t] = "end"
                 ELSE pc'[t] = "end"
         /\ Finishes(t) =>
                 pc[t] = "L98" \/ (pc[t] = "A_exit" /\ appends[t] = 1)]_vars

\* no thread holds the lock outside a with block of _History: not while
\* its snippet executes, not while a request is read or answered
LockOnlyInCalls ==
    /\ \A t \in Tasks :
          pc[t] \in {"unborn", "L96", "A32", "L97", "L98", "end"} => lock # t
    /\ pc[Server] \in {"idle", "R44", "G28", "H163"} => lock # Server

\* C17: the lock is held only inside the with blocks of append, reset and
\* get, never while a snippet executes or a request or response is
\* transferred; and whether or not executor threads hang in their snippets
\* for ever, every holder of the lock releases it and every append, reset
\* and get call that was started completes.
C17_LockNeverBlocks ==
    /\ []LockOnlyInCalls
    /\ \A t \in Threads : (lock = t) ~> (lock = Free)
    /\ \A t \in Tasks : (pc[t] = "A32") ~> (pc[t] \in {"L97", "end"})
    /\ (pc[Server] \in {"R44", "G28"}) ~> (pc[Server] \in {"idle", "H163"})

\* one executor thread is inside its snippet while another thread holds the
\* lock and a third call waits for it
C17_Witness ==
    /\ \E t \in Tasks : pc[t] = "L97"
    /\ \E u \in Tasks : lock = u
    /\ pc[Server] \in {"R44", "G28"}

\* ------------------------------------------------------------------------
\* The client script served by handle_root (lines 229-408)
\* ------------------------------------------------------------------------

\* ArrayBuffer.prototype.slice(begin): a negative begin counts from the end
JsSlice(s, i) == PySliceFrom(s, i)

\* the characters parseInt skips before the number
Whitespace == {9, 10, 11, 12, 13, 32}

DigitCodes == 48..57

RECURSIVE SkipWhitespace(_, _)
SkipWhitespace(s, k) ==
    IF k <= Len(s) /\ s[k] \in Whitespace THEN SkipWhitespace(s, k + 1) ELSE k

RECURSIVE ReadDigits(_, _, _)
ReadDigits(s, k, acc) ==
    IF k <= Len(s) /\ s[k] \in DigitCodes
    THEN ReadDigits(s, k + 1, 10 * acc + (s[k] - 48))
    ELSE acc

\* parseInt(new TextDecoder().decode(slice), 10): <<n>> for a number, <<>> for NaN
ParseInt(s) ==
    LET k == SkipWhitespace(s, 1)
        signed == k <= Len(s) /\ s[k] \in {43, 45}
        d == IF signed THEN k + 1 ELSE k
    IN  IF d <= Len(s) /\ s[d] \in DigitCodes
        THEN IF signed /\ s[k] = 45 THEN <<-ReadDigits(s, d, 0)>> ELSE <<ReadDigits(s, d, 0)>>
        ELSE <<>>

\* the position of the first '\n' at index i or later (from 1), 0 if there is none
RECURSIVE FindNL(_, _)
FindNL(data, i) ==
    IF i > Len(data) THEN 0
    ELSE IF data[i] = NL THEN i
    ELSE FindNL(data, i + 1)

\* one round of the loop of lines 296-311: the scan from i for the next '\n';
\* st.fields collects newVersion, newStart, begin (<<>> when left undefined)
ScanField(data, st) ==
    LET p == FindNL(data, st.i + 1)
    IN  IF p = 0
        THEN [i |-> Len(data), last |-> st.last, fields |-> Append(st.fields, <<>>)]
        ELSE [i |-> p, last |-> p,
              fields |-> Append(st.fields, ParseInt(SubSeq(data, st.last + 1, p - 1)))]

\* lines 294-311: the three header numbers and the part after them
ParseResponse(data) ==
    LET s0 == [i |-> 0, last |-> 0, fields |-> <<>>]
        s3 == ScanField(data, ScanField(data, ScanField(data, s0)))
    IN  [newVersion |-> s3.fields[1],
         newStart   |-> s3.fields[2],
         begin      |-> s3.fields[3],
         part       |-> JsSlice(data, s3.last)]

\* x >= 0 for a parsed number; false for NaN and undefined
NonNegative(x) == x # <<>> /\ x[1] >= 0

\* line 313 without its last comparison
ValidResponseAnyBegin(r) ==
    /\ NonNegative(r.newVersion)
    /\ NonNegative(r.newStart)
    /\ NonNegative(r.begin)

\* line 313
ValidResponse(r) ==
    /\ NonNegative(r.newVersion)
    /\ NonNegative(r.newStart)
    /\ NonNegative(r.begin)
    /\ r.begin[1] >= r.newStart[1]

\* the same-version branch without the trimming of the overlap (lines 333-336)
MergeSameVersionNoTrim(newStart, begin, part, hv, hs, hd) ==
    LET evicted == newStart > hs
        hd1 == IF evicted
               THEN IF newStart < hs + Len(hd) THEN JsSlice(hd, newStart - hs) ELSE <<>>
               ELSE hd
        hs1 == IF evicted THEN newStart ELSE hs
        ret1 == IF evicted THEN -1 ELSE 1
        end1 == hs1 + Len(hd1)
        kept == [ret |-> ret1, historyVersion |-> hv, historyStart |-> hs1, historyData |-> hd1]
    IN  IF begin + Len(part) <= end1 THEN kept
        ELSE IF begin > end1 THEN kept
        ELSE [ret |-> -1, historyVersion |-> hv, historyStart |-> hs1,
              historyData |-> hd1 \o part]

\* the same-version branch were the evicted bytes cut off one byte short
\* (line 323)
MergeSameVersionCutsShort(newStart, begin, part, hv, hs, hd) ==
    LET evicted == newStart > hs
        hd1 == IF evicted
               THEN IF newStart < hs + Len(hd) THEN JsSlice(hd, newStart - hs - 1) ELSE <<>>
               ELSE hd
        hs1 == IF evicted THEN newStart ELSE hs
        ret1 == IF evicted THEN -1 ELSE 1
        end1 == hs1 + Len(hd1)
        overlap == begin < end1
        part2 == IF overlap THEN JsSlice(part, end1 - begin) ELSE part
        begin2 == IF overlap THEN end1 ELSE begin
        kept == [ret |-> ret1, historyVersion |-> hv, historyStart |-> hs1, historyData |-> hd1]
    IN  IF begin + Len(part) <= end1 THEN kept
        ELSE IF begin2 > end1 THEN kept
        ELSE [ret |-> -1, historyVersion |-> hv, historyStart |-> hs1,
              historyData |-> hd1 \o part2]

\* lines 319-344, the same-version branch
MergeSameVersion(newStart, begin, part, hv, hs, hd) ==
    LET evicted == newStart > hs
        hd1 == IF evicted
               THEN IF newStart < hs + Len(hd) THEN JsSlice(hd, newStart - hs) ELSE <<>>
               ELSE hd
        hs1 == IF evicted THEN newStart ELSE hs
        ret1 == IF evicted THEN -1 ELSE 1
        end1 == hs1 + Len(hd1)
        overlap == begin < end1
        part2 == IF overlap THEN JsSlice(part, end1 - begin) ELSE part
        begin2 == IF overlap THEN end1 ELSE begin
        kept == [ret |-> ret1, historyVersion |-> hv, historyStart |-> hs1, historyData |-> hd1]
    IN  IF begin + Len(part) <= end1 THEN kept
        ELSE IF begin2 > end1 THEN kept
        ELSE [ret |-> -1, historyVersion |-> hv, historyStart |-> hs1,
              historyData |-> hd1 \o part2]

\* updateHistory with a newer version's part added to the old data instead
\* of replacing it (lines 349-351)
UpdateHistoryKeepsOldData(status, response, hv, hs, hd) ==
    LET same(x) == [ret |-> x, historyVersion |-> hv, historyStart |-> hs, historyData |-> hd]
        after(r) ==
            IF status # 200 THEN same(1)
            ELSE IF ~ValidResponse(r) THEN same(1)
            ELSE IF r.newVersion[1] < hv THEN same(0)
            ELSE IF r.newVersion[1] = hv
                 THEN MergeSameVersion(r.newStart[1], r.begin[1], r.part, hv, hs, hd)
            ELSE IF r.begin[1] # r.newStart[1] THEN same(0)
            ELSE [ret |-> -1, historyVersion |-> r.newVersion[1],
                  historyStart |-> r.newStart[1], historyData |-> hd \o r.part]
    IN  CHOOSE u \in {after(r) : r \in {ParseResponse(response)}} : TRUE

\* updateHistory(status, response) in the client state (hv, hs, hd): the
\* value returned and the state left; r is the header and part the loop of
\* lines 294-311 reads, once
UpdateHistory(status, response, hv, hs, hd) ==
    LET same(x) == [ret |-> x, historyVersion |-> hv, historyStart |-> hs, historyData |-> hd]
        after(r) ==
            IF status # 200 THEN same(1)
            ELSE IF ~ValidResponse(r) THEN same(1)
            ELSE IF r.newVersion[1] < hv THEN same(0)
            ELSE IF r.newVersion[1] = hv
                 THEN MergeSameVersion(r.newStart[1], r.begin[1], r.part, hv, hs, hd)
            ELSE IF r.begin[1] # r.newStart[1] THEN same(0)
            ELSE [ret |-> -1, historyVersion |-> r.newVersion[1],
                  historyStart |-> r.newStart[1], historyData |-> r.part]
    IN  CHOOSE u \in {after(r) : r \in {ParseResponse(response)}} : TRUE

\* the id setTimeout returns: one that no pending timer has and that the
\* script does not remember (an id is never handed out twice; the script
\* remembers only historyDaemonId, so the least such id is taken)
FreshTimer(pending) ==
    LET used == pending \cup {historyDaemonId}
    IN  CHOOSE n \in 1..(Cardinality(used) + 1) :
            /\ n \notin used
            /\ \A m \in 1..(n - 1) : m \in used

\* resetHistoryDaemonTimer, lines 356-360
ResetHistoryDaemonTimer ==
    LET kept == timers \ {historyDaemonId}
        id == FreshTimer(kept)
    IN  /\ historyDaemonInterval' = 0
        /\ timers' = kept \cup {id}
        /\ historyDaemonId' = id

\* the wait after one more poll, were the steps of 100 taken up to 500
NextIntervalLateStep(ms) ==
    LET raised == IF ms <= 400 THEN ms + 100
                  ELSE IF ms < 1000 THEN ms + 200
                  ELSE ms + 500
    IN  IF raised > 5000 THEN 5000 ELSE raised

\* lines 363-370: the wait after one more poll
NextInterval(ms) ==
    LET raised == IF ms < 400 THEN ms + 100
                  ELSE IF ms < 1000 THEN ms + 200
                  ELSE ms + 500
    IN  IF raised > 5000 THEN 5000 ELSE raised

\* a whole number concatenated into a string: its decimal digits
JsNumberToString(n) == Str(n)

\* the request were begin the mirror's start and not its end (line 283)
PollRequestFromStart ==
    [len |-> JsNumberToString(PollLen),
     version |-> JsNumberToString(historyVersion),
     begin |-> JsNumberToString(historyStart)]

\* getHistory, lines 282-283: the query parameters of the request sent
PollRequest ==
    [len |-> JsNumberToString(PollLen),
     version |-> JsNumberToString(historyVersion),
     begin |-> JsNumberToString(historyStart + Len(historyData))]

RECURSIVE SkipWhitespaceBack(_, _)
SkipWhitespaceBack(s, k) ==
    IF k >= 1 /\ s[k] \in Whitespace THEN SkipWhitespaceBack(s, k - 1) ELSE k

\* int(text), lines 157-159: <<n>> for an optionally signed run of digits
\* with whitespace around it, <<>> where int raises ValueError
PyInt(s) ==
    LET a == SkipWhitespace(s, 1)
        b == SkipWhitespaceBack(s, Len(s))
        signed == a <= b /\ s[a] \in {43, 45}
        d == IF signed THEN a + 1 ELSE a
    IN  IF d <= b /\ \A k \in d..b : s[k] \in DigitCodes
        THEN IF signed /\ s[a] = 45
             THEN <<-ReadDigits(s, d, 0)>>
             ELSE <<ReadDigits(s, d, 0)>>
        ELSE <<>>

\* ------------------------------------------------------------------------
\* SpecSync: the server's history, one page polling it, and the /history
\* requests and responses in flight.  Appends (made by executor threads) and
\* resets (made by /clear requests) arrive at the history as complete calls
\* at any time.
\* ------------------------------------------------------------------------

\* the byte appended at offset k (from 1) of version v: every offset of
\* every version has a byte of its own
ByteAt(v, k) == 65 + 8 * v + k

InitSync ==
    /\ ThreadsAtRest
    /\ ClientLoaded
    /\ version = 0
    /\ len = HistoryLen(ServerLen)
    /\ start = 0
    /\ value = <<>>
    /\ stream = <<>>
    /\ past = <<>>
    /\ lastOp = "init"
    /\ NoRequestState

InFlight == BagCardinality(requests) + BagCardinality(responses)

\* an executor thread's append(chunk) call
SyncAppend ==
    \E n \in 0..MaxChunk :
        LET chunk == [i \in 1..n |-> ByteAt(version, Len(stream) + i)]
            r == HistoryAppend(start, value, len, chunk)
        IN  /\ Len(stream) + n <= MaxSyncTotal
            /\ start' = r.start
            /\ value' = r.value
            /\ stream' = stream \o chunk
            /\ lastOp' = "append"
            /\ UNCHANGED <<version, len, past>>
            /\ UNCHANGED <<reqVars, threadVars, clientVars>>

\* handle_clear: reset()
SyncReset ==
    /\ version < MaxSyncResets
    /\ LET r == HistoryReset(version)
       IN  /\ version' = r.version
           /\ start' = r.start
           /\ value' = r.value
    /\ past' = Append(past, stream)
    /\ stream' = <<>>
    /\ lastOp' = "reset"
    /\ UNCHANGED len
    /\ UNCHANGED <<reqVars, threadVars, clientVars>>

\* handle_history for a request that has arrived; a parameter int() rejects
\* raises, handle_methods swallows the exception and nothing is answered
SyncServe ==
    \E q \in BagToSet(requests) :
        LET length == PyInt(q.len)
            ver == PyInt(q.version)
            begin == PyInt(q.begin)
            parsed == [len |-> length[1], version |-> ver[1], begin |-> begin[1]]
        IN
        /\ requests' = requests (-) SetToBag({q})
        /\ IF length = <<>> \/ ver = <<>> \/ begin = <<>>
           THEN UNCHANGED responses
           ELSE responses' = responses (+)
                    SetToBag({[status |-> 200,
                              body |-> HistoryContent(HistoryReply(parsed, HistoryGet))]})
        /\ lastOp' = "serve"
        /\ UNCHANGED <<version, start, value, len, stream, past>>
        /\ UNCHANGED <<reqVars, threadVars>>
        /\ UNCHANGED <<historyVersion, historyStart, historyData,
                       historyDaemonInterval, historyDaemonId, timers>>

\* historyDaemon were the id of its new timer not kept (line 371)
HistoryDaemonForgetsId ==
    \E fired \in timers :
        LET kept == timers \ {fired}
            id == FreshTimer(kept)
        IN  /\ InFlight < MaxInFlight
            /\ historyDaemonInterval' = NextInterval(historyDaemonInterval)
            /\ timers' = kept \cup {id}
            /\ requests' = requests (+) SetToBag({PollRequest})
            /\ lastOp' = "poll"
            /\ UNCHANGED <<version, start, value, len, stream, past>>
            /\ UNCHANGED <<reqVars, threadVars>>
            /\ UNCHANGED <<historyVersion, historyStart, historyData, responses,
                           historyDaemonId>>

\* historyDaemon, lines 362-379: a pending timer fires
HistoryDaemon ==
    \E fired \in timers :
        LET kept == timers \ {fired}
            id == FreshTimer(kept)
        IN  /\ InFlight < MaxInFlight
            /\ historyDaemonInterval' = NextInterval(historyDaemonInterval)
            /\ timers' = kept \cup {id}
            /\ historyDaemonId' = id
            /\ requests' = requests (+) SetToBag({PollRequest})
            /\ lastOp' = "poll"
            /\ UNCHANGED <<version, start, value, len, stream, past>>
            /\ UNCHANGED <<reqVars, threadVars>>
            /\ UNCHANGED <<historyVersion, historyStart, historyData, responses>>

\* the load callback were the timer reset for x <= 0 (line 376)
ClientLoadResetsOnZero ==
    \E m \in BagToSet(responses) :
        \E u \in {UpdateHistory(m.status, m.body, historyVersion, historyStart,
                                 historyData)} :
            /\ responses' = responses (-) SetToBag({m})
            /\ historyVersion' = u.historyVersion
            /\ historyStart' = u.historyStart
            /\ historyData' = u.historyData
            /\ IF u.ret <= 0
               THEN ResetHistoryDaemonTimer
               ELSE UNCHANGED <<historyDaemonInterval, historyDaemonId, timers>>
            /\ lastOp' = "load"
            /\ UNCHANGED <<version, start, value, len, stream, past>>
            /\ UNCHANGED <<reqVars, threadVars, requests>>

\* the load callback of lines 374-377: updateHistory, and the timer is reset
\* on progress
ClientLoad ==
    \E m \in BagToSet(responses) :
        \E u \in {UpdateHistory(m.status, m.body, historyVersion, historyStart,
                                 historyData)} :
            /\ responses' = responses (-) SetToBag({m})
            /\ historyVersion' = u.historyVersion
            /\ historyStart' = u.historyStart
            /\ historyData' = u.historyData
            /\ IF u.ret < 0
               THEN ResetHistoryDaemonTimer
               ELSE UNCHANGED <<historyDaemonInterval, historyDaemonId, timers>>
            /\ lastOp' = "load"
            /\ UNCHANGED <<version, start, value, len, stream, past>>
            /\ UNCHANGED <<reqVars, threadVars, requests>>

\* a request never arrives: the error or timeout callback (line 378) does nothing
ClientErrorRequest ==
    \E q \in BagToSet(requests) :
        /\ requests' = requests (-) SetToBag({q})
        /\ lastOp' = "error"
        /\ UNCHANGED <<version, start, value, len, stream, past>>
        /\ UNCHANGED <<reqVars, threadVars>>
        /\ UNCHANGED <<historyVersion, historyStart, historyData,
                       historyDaemonInterval, historyDaemonId, timers, responses>>

\* a response never arrives: the error or timeout callback does nothing
ClientErrorResponse ==
    \E m \in BagToSet(responses) :
        /\ responses' = responses (-) SetToBag({m})
        /\ lastOp' = "error"
        /\ UNCHANGED <<version, start, value, len, stream, past>>
        /\ UNCHANGED <<reqVars, threadVars>>
        /\ UNCHANGED <<historyVersion, historyStart, historyData,
                       historyDaemonInterval, historyDaemonId, timers, requests>>

\* the submit handler, lines 386-396: the timer is reset and the code posted
ClientSubmit ==
    /\ ResetHistoryDaemonTimer
    /\ lastOp' = "submit"
    /\ UNCHANGED <<version, start, value, len, stream, past>>
    /\ UNCHANGED <<reqVars, threadVars>>
    /\ UNCHANGED <<historyVersion, historyStart, historyData, requests, responses>>

\* the clear handler, lines 399-404: the timer is reset and the clear posted
ClientClear ==
    /\ ResetHistoryDaemonTimer
    /\ lastOp' = "clear"
    /\ UNCHANGED <<version, start, value, len, stream, past>>
    /\ UNCHANGED <<reqVars, threadVars>>
    /\ UNCHANGED <<historyVersion, historyStart, historyData, requests, responses>>

NextSync ==
    \/ SyncAppend
    \/ SyncReset
    \/ SyncServe
    \/ HistoryDaemon
    \/ ClientLoad
    \/ ClientErrorRequest
    \/ ClientErrorResponse
    \/ ClientSubmit
    \/ ClientClear

SpecSync == InitSync /\ [][NextSync]_vars

\* The pending timer fires whenever the cap on polls in flight lets it.
\* Nothing makes the server append or reset, and nothing makes a request or
\* a response arrive: they may be lost.
FairSync == WF_vars(HistoryDaemon)

SpecSyncFair == InitSync /\ [][NextSync]_vars /\ FairSync

\* ------------------------------------------------------------------------
\* Properties of SpecSync
\* ------------------------------------------------------------------------

\* every byte appended in version v, in order
EpochStream(v) ==
    IF v = version THEN stream
    ELSE IF v < version THEN past[v + 1]
    ELSE <<>>

\* C10: the client's mirror is a true window of the log: historyData is
\* exactly the bytes appended at offsets [historyStart, historyStart +
\* len(historyData)) of version historyVersion.
C10_MirrorIsWindow ==
    /\ historyStart + Len(historyData) <= Len(EpochStream(historyVersion))
    /\ historyData = SubSeq(EpochStream(historyVersion), historyStart + 1,
                            historyStart + Len(historyData))

C10_Witness ==
    /\ historyVersion = 1
    /\ historyStart > 0
    /\ Len(historyData) >= 2
    /\ historyStart + Len(historyData) = Len(EpochStream(1))
    /\ InFlight = MaxInFlight

\* the header numbers of r are all there, none negative, and begin is not
\* before the start
HeaderInOrder(r) ==
    /\ r.newVersion # <<>> /\ r.newVersion[1] >= 0
    /\ r.newStart # <<>> /\ r.newStart[1] >= 0
    /\ r.begin # <<>> /\ r.begin[1] >= 0
    /\ r.begin[1] >= r.newStart[1]

\* the waits of a run of polls without progress, in order
Waits == <<0, 100, 200, 300, 400, 600, 800, 1000, 1500, 2000, 2500, 3000,
           3500, 4000, 4500, 5000>>

\* the step changes the mirror
MirrorChanged ==
    <<historyVersion, historyStart, historyData>>' #
        <<historyVersion, historyStart, historyData>>

\* C13: the poll wait starts at 0; each poll moves it one place along 100,
\* 200, 300, 400, 600, 800, 1000, 1500, 2000, ..., 5000, where it stays; a
\* response that makes progress, a submit and a clear set it to 0, and
\* nothing else ever lowers it.
C13_BackoffSchedule ==
    /\ historyDaemonInterval = Waits[1]
    /\ [][/\ lastOp' = "poll" =>
               \E i \in 1..Len(Waits) :
                   /\ historyDaemonInterval = Waits[i]
                   /\ historyDaemonInterval' = Waits[Min(i + 1, Len(Waits))]
          /\ lastOp' \in {"submit", "clear"} => historyDaemonInterval' = 0
          /\ (lastOp' = "load" /\ MirrorChanged) => historyDaemonInterval' = 0
          /\ historyDaemonInterval' <= 5000
          /\ historyDaemonInterval' < historyDaemonInterval =>
                /\ historyDaemonInterval' = 0
                /\ \/ lastOp' \in {"submit", "clear"}
                   \/ lastOp' = "load" /\ MirrorChanged
          /\ (lastOp' # "poll" /\ historyDaemonInterval' # 0) =>
                historyDaemonInterval' = historyDaemonInterval]_vars

\* polls without progress have taken the wait all the way up to 5000
C13_Witness ==
    /\ lastOp = "poll"
    /\ historyDaemonInterval = 5000

\* C18: once the page is loaded exactly one poll timer is pending in every
\* state, and it is the one historyDaemonId names: a timer that fires arms
\* its successor, a reset clears the pending timer before it arms a new one,
\* so the polling never stops and never forks.
C18_OneTimerPending ==
    /\ Cardinality(timers) = 1
    /\ historyDaemonId \in timers

\* a submit has just replaced the timer that an earlier poll armed, while
\* that poll's request is still in flight
C18_Witness ==
    /\ lastOp = "submit"
    /\ requests # EmptyBag
    /\ timers = {1}

\* C20: the mirror's version never exceeds the server's, and every response
\* in flight that carries a version above the mirror's has begin = start:
\* the branch of updateHistory that discards a newer version (line 346) is
\* never taken for a response of this server.
C20_NewerVersionFromStart ==
    /\ historyVersion <= version
    /\ \A m \in BagToSet(responses) :
          LET r == ParseResponse(m.body)
          IN  /\ m.status = 200
              /\ HeaderInOrder(r)
              /\ r.newVersion[1] > historyVersion => r.begin[1] = r.newStart[1]

\* a response of version 1 with a part is in flight to a mirror of version 0
\* whose end offset lies beyond the begin the response carries
C20_Witness ==
    /\ historyVersion = 0
    /\ historyData # <<>>
    /\ \E m \in BagToSet(responses) :
          LET r == ParseResponse(m.body)
          IN  /\ r.newVersion[1] = 1
              /\ r.begin[1] < historyStart + Len(historyData)
              /\ r.part # <<>>

\* the mirror is the log
Converged ==
    /\ historyVersion = version
    /\ historyStart = start
    /\ historyData = value

\* C19: the appends and resets stop (there are finitely many of them); if
\* the client's polls keep being answered, that is if the load callback
\* runs again and again for ever, then from some state on the mirror
\* (historyVersion, historyStart, historyData) equals the server's
\* (version, start, value) and stays equal, although a response carries at
\* most PollLen bytes.
C19_EventuallyConverged == ([]<>(lastOp = "load")) => <>[]Converged

\* the mirror equals a log of version 1 that has evicted bytes and holds
\* more than one response carries
C19_Witness ==
    /\ Converged
    /\ version = 1
    /\ start > 0
    /\ Len(value) > PollLen

\* ------------------------------------------------------------------------
\* SpecClient: the page alone.  Whatever answers its polls is not modelled:
\* the load callback receives any status and any body of a bounded set, well
\* formed or not, so updateHistory is applied to every kind of response in
\* every state of the mirror that responses can produce.
\* ------------------------------------------------------------------------

\* "-1" and "x": header texts that are no offset
Junk == {<<45, 49>>, <<120>>}

\* texts of the version field of a body
VersionTexts == {Str(n) : n \in 0..MaxVersion} \cup Junk

\* texts of the start field of a body
HeaderTexts == {Str(n) : n \in 0..MaxHeader} \cup Junk

\* texts of the begin field of a body
BeginTexts == {Str(n) : n \in 0..(MaxHeader + 1)} \cup Junk

\* the parts of a body: "", "a", "ab", ...
Parts == {[i \in 1..n |-> 96 + i] : n \in 0..MaxPart}

\* the bodies xhr.response can hold: three header lines and a part, or less
Bodies ==
    {f1 \o <<NL>> \o f2 \o <<NL>> \o f3 \o <<NL>> \o part :
        f1 \in VersionTexts, f2 \in HeaderTexts, f3 \in BeginTexts, part \in Parts}
    \cup {<<>>, Str(0) \o <<NL>> \o Str(0)}

\* what the load event can deliver (lines 275-277): xhr.status, xhr.response
Deliveries ==
    [status : {200}, body : Bodies]
    \cup [status : {404, 500}, body : {<<>>, HistoryContent([version |-> 1, start |-> 0,
                                                           begin |-> 0, part |-> <<97>>])}]

\* a poll in flight is answered by something
NetRespond ==
    \E q \in BagToSet(requests), m \in Deliveries :
        /\ requests' = requests (-) SetToBag({q})
        /\ responses' = responses (+) SetToBag({m})
        /\ lastOp' = "serve"
        /\ UNCHANGED <<version, start, value, len, stream, past>>
        /\ UNCHANGED <<reqVars, threadVars>>
        /\ UNCHANGED <<historyVersion, historyStart, historyData,
                       historyDaemonInterval, historyDaemonId, timers>>

\* one poll in flight at a time, and the wait explored up to ClientWait
NextClient ==
    \/ (InFlight = 0 /\ historyDaemonInterval < ClientWait /\ HistoryDaemon)
    \/ NetRespond
    \/ ClientLoad
    \/ ClientErrorRequest
    \/ ClientErrorResponse
    \/ ClientSubmit
    \/ ClientClear

SpecClient == InitSync /\ [][NextClient]_vars

\* ------------------------------------------------------------------------
\* Properties of SpecClient
\* ------------------------------------------------------------------------

\* the step is the load callback for the response m
Loads(m) ==
    /\ lastOp' = "load"
    /\ m \in BagToSet(responses)
    /\ responses' = responses (-) SetToBag({m})

\* the step calls resetHistoryDaemonTimer: the wait is 0 and a new timer,
\* with a new id, replaces the pending one
TimerReset ==
    /\ historyDaemonInterval' = 0
    /\ historyDaemonId' # historyDaemonId
    /\ timers' = {historyDaemonId'}

\* the step leaves the wait and the pending timer alone
TimerKept == UNCHANGED <<historyDaemonInterval, historyDaemonId, timers>>

\* the body the server sends for these header numbers and this part
WireBody(v, s, b, part) == Str(v) \o <<NL>> \o Str(s) \o <<NL>> \o Str(b) \o <<NL>> \o part

\* C11: when the load callback processes a status-200 response whose
\* header is (v, s, begin = s) with v above the mirror's version, the mirror
\* is replaced wholesale: afterwards historyVersion = v, historyStart = s and
\* historyData is exactly the part, and progress is reported (the poll timer
\* is reset).
C11_NewerVersionReplaces ==
    [][\A m \in BagToSet(responses) :
         \A v \in 0..MaxVersion, s \in 0..MaxHeader, part \in Parts :
            (/\ Loads(m)
             /\ m.status = 200
             /\ m.body = WireBody(v, s, s, part)
             /\ v > historyVersion)
            => (/\ historyVersion' = v
                /\ historyStart' = s
                /\ historyData' = part
                /\ TimerReset)]_vars

\* the mirror right after a load replaced it by a newer version's part
C11_Witness ==
    /\ lastOp = "load"
    /\ historyVersion = MaxVersion
    /\ historyStart = MaxHeader
    /\ Len(historyData) = MaxPart
    /\ historyDaemonInterval = 0

\* the response m is one the mirror in its present state has no use for
Rejected(m) ==
    LET r == ParseResponse(m.body)
    IN  \/ m.status # 200
        \/ ~HeaderInOrder(r)
        \/ r.newVersion[1] < historyVersion
        \/ r.newVersion[1] > historyVersion /\ r.begin[1] # r.newStart[1]

\* C12: a response that has a status other than 200, or fails the validity
\* check, or carries a version below the mirror's, or carries a version
\* above the mirror's with begin # start, leaves historyVersion,
\* historyStart and historyData unchanged, and the backoff timer is not
\* reset.
C12_RejectedChangesNothing ==
    [][\A m \in BagToSet(responses) :
         (Loads(m) /\ Rejected(m))
         => (/\ UNCHANGED <<historyVersion, historyStart, historyData>>
             /\ TimerKept)]_vars

\* a load has left the wait at its highest, with a mirror that holds data
\* of version 1: the response was of no use
C12_Witness ==
    /\ lastOp = "load"
    /\ historyDaemonInterval = ClientWait
    /\ historyVersion = 1
    /\ historyData # <<>>

\* C15: for a valid response of the mirror's own version with header
\* (s, b) and a part: if s > historyStart the mirror loses exactly its
\* first min(s - historyStart, len(historyData)) bytes and historyStart
\* becomes s; then, with end the end offset of what is left, if
\* b <= end < b + len(part) exactly the last b + len(part) - end bytes of
\* the part are appended, and otherwise nothing is appended.
C15_SameVersionMerge ==
    [][\A m \in BagToSet(responses) :
         \A s \in 0..MaxHeader, b \in 0..(MaxHeader + 1), part \in Parts :
            (/\ Loads(m)
             /\ m.status = 200
             /\ m.body = WireBody(historyVersion, s, b, part)
             /\ b >= s)
            => LET drop == IF s > historyStart
                           THEN Min(s - historyStart, Len(historyData))
                           ELSE 0
                   left == SubSeq(historyData, drop + 1, Len(historyData))
                   from == IF s > historyStart THEN s ELSE historyStart
                   end == from + Len(left)
                   more == b + Len(part) - end
                   added == IF b <= end /\ end < b + Len(part)
                            THEN SubSeq(part, Len(part) - more + 1, Len(part))
                            ELSE <<>>
               IN  /\ historyVersion' = historyVersion
                   /\ historyStart' = from
                   /\ historyData' = left \o added]_vars

\* a mirror of version 0 after a load, with a start that only an eviction
\* and a length that only an extension can have given it
C15_Witness ==
    /\ lastOp = "load"
    /\ historyVersion = 0
    /\ historyStart > 0
    /\ Len(historyData) > MaxPart

\* C16: the load callback resets the poll timer (updateHistory has
\* reported progress) exactly when the response changed at least one of
\* historyVersion, historyStart and historyData; a response that changes
\* none of them leaves the wait and the pending timer as they were.
C16_ProgressIffChanged ==
    [][\A m \in BagToSet(responses) :
         Loads(m) => /\ TimerReset <=> MirrorChanged
                     /\ ~MirrorChanged => TimerKept]_vars

\* a load has left the wait at 0 and a mirror of version 0 that an eviction
\* emptied: its start has moved and it holds nothing
C16_Witness ==
    /\ lastOp = "load"
    /\ historyDaemonInterval = 0
    /\ historyVersion = 0
    /\ historyStart = MaxHeader
    /\ historyData = <<>>

====
